---- MODULE Spec2Model ----
(***************************************************************************)
(* The session core of ll_mtproto.client.Client: seqno allocation, the     *)
(* pending registries, the ack batcher, the ping watchdog, the inbound     *)
(* dispatcher, rpc_call / disconnect and the bad_server_salt / error-32    *)
(* recovery, run by one cooperative event loop.                            *)
(*                                                                         *)
(* One action is one turn of the event loop: a coroutine runs from the     *)
(* await where it was suspended to its next await (or to its end), or a    *)
(* timer callback runs to completion.  The code of a turn is written as    *)
(* operators over a record s that holds every field of the client and of   *)
(* its collaborators; an action applies them to the current state (Self)   *)
(* and stores the result (Commit).  s.ctl tells how a piece of code ended: *)
(* "ret" (returned), "susp" (suspended at an await), "raise" (s.exc).      *)
(***************************************************************************)
EXTENDS Integers, Sequences, FiniteSets, TLC

\* ------------------------------------------------------------------ bounds
NCallers == 2       \* rpc_call invocations (one caller task each)
MaxSessions == 2    \* MTProto transports (and read-loop tasks) ever created
MaxWrites == 4      \* messages ever handed to transport.write
MaxRecv == 2        \* messages ever delivered by transport.read
MaxPings == 2       \* ping probes ever created

\* ------------------------------------------------------- program constants
SeqnoIncrementCap == 2147483647     \* 2 ** 31 - 1
AckFlushSize == 32                  \* acks buffered before a flush is due

Callers == 1..NCallers
Loops == 1..MaxSessions
PingIds == 1..MaxPings
\* _PendingRequest objects: caller c's request is c, ping p's request is NCallers + p
Requests == 1..(NCallers + MaxPings)
PingRequest(p) == NCallers + p
\* seqnos of inbound messages: an even and an odd one
SeqnoVals == {0, 3}
\* salts a bad_server_salt may carry
SaltVals == {1}

VARIABLES
    mtproto,                \* self._mtproto: 0 is None, k is the k-th MTProto
    mtproto_loop_task,      \* self._mtproto_loop_task: 0 is None, k the k-th task
    last_seqno,             \* self._last_seqno
    stable_seqno,           \* self._stable_seqno
    seqno_increment,        \* self._seqno_increment
    msgids_to_ack,          \* self._msgids_to_ack
    pending_requests,       \* self._pending_requests: msg_id -> request
    pending_pongs,          \* self._pending_pongs: ping ids whose timer is armed
    pending_ping_request,   \* self._pending_ping_request: "none", "armed", "spent"
    response,               \* _PendingRequest.response of every request
    callers,                \* the rpc_call coroutines
    loops,                  \* the _mtproto_loop tasks
    timers,                 \* call_later handles nobody holds: next-ping, expiry
    transport,              \* the MTProto collaborator: salt, msg_id counter, reads
    returned,               \* the largest seqno an allocator call has returned
    scope,                  \* the scope of the behaviour (never changes)
    results,                \* per request: the rpc_results that resolved its slot
    trace                   \* what the last turn did: allocation, write, pongs, failed set_result

vars == <<mtproto, mtproto_loop_task, last_seqno, stable_seqno, seqno_increment,
          msgids_to_ack, pending_requests, pending_pongs, pending_ping_request,
          response, callers, loops, timers, transport, returned, results, trace, scope>>

Max(a, b) == IF a >= b THEN a ELSE b
Min(a, b) == IF a <= b THEN a ELSE b

\* a dict with key k set to v / with key k deleted
Put(f, k, v) == [x \in DOMAIN f \cup {k} |-> IF x = k THEN v ELSE f[x]]
Del(f, k) == [x \in DOMAIN f \ {k} |-> f[x]]
EmptyDict == [x \in {} |-> 0]

NoCaller == [pc |-> "idle", mid |-> 0, cancel |-> FALSE, out |-> "none", torn |-> FALSE]
NoLoop == [pc |-> "none", cancel |-> FALSE, rt |-> 0, cur |-> <<>>, rest |-> <<>>,
           mid |-> 0, req |-> 0]
NoAlloc == [kind |-> "none", val |-> 0, prev |-> 0]
NoWrite == [kind |-> "none", seqno |-> 0, stable |-> FALSE, acks |-> 0]
NoTrace == [alloc |-> NoAlloc, write |-> NoWrite, pongs |-> {}, invalid |-> FALSE]

\* the whole state as one record
Self ==
    [mtproto |-> mtproto, mtproto_loop_task |-> mtproto_loop_task,
     last_seqno |-> last_seqno, stable_seqno |-> stable_seqno,
     seqno_increment |-> seqno_increment, msgids_to_ack |-> msgids_to_ack,
     pending_requests |-> pending_requests, pending_pongs |-> pending_pongs,
     pending_ping_request |-> pending_ping_request, response |-> response,
     callers |-> callers, loops |-> loops, timers |-> timers,
     transport |-> transport, returned |-> returned, results |-> results,
     trace |-> NoTrace,
     ctl |-> "ret", exc |-> "none", fresh |-> FALSE]

\* the number of messages in a msg_container the server sends
ContainerSize == 2

\* the constructors of the bodies the server sends
BodyKinds == {"other", "rpc_result", "pong", "bad_server_salt", "bad_msg_notification"}

\* a scope: how many callers, sessions, writes, reads and pings a behaviour
\* uses, whether the user cancels rpc_call tasks in it, and the seqnos and the
\* bodies of the messages the server sends in it
Scope(nc, ns, nw, nr, np, cancel) ==
    [callers |-> nc, sessions |-> ns, writes |-> nw, recv |-> nr, pings |-> np,
     cancel |-> cancel, seqnos |-> SeqnoVals, kinds |-> BodyKinds, containers |-> FALSE]

\* the scopes explored: one caller with a longer exchange, two callers with a
\* shorter one, one caller whose task the user may cancel, one session that
\* receives enough content messages to fill the ack buffer beyond its flush
\* size, one session that receives containers, and one session with a longer
\* exchange of rpc_result and bad_server_salt
Scopes ==
    {Scope(1, MaxSessions, MaxWrites, MaxRecv, MaxPings, FALSE),
     Scope(NCallers, MaxSessions, MaxWrites - 1, MaxRecv - 1, MaxPings, FALSE),
     Scope(1, MaxSessions, MaxWrites - 1, MaxRecv - 1, MaxPings, TRUE),
     [Scope(1, 1, 3, AckFlushSize + 2, 1, FALSE)
          EXCEPT !.seqnos = {3}, !.kinds = {"other", "rpc_result"}],
     [Scope(1, 1, 3, ContainerSize + 1, 1, FALSE)
          EXCEPT !.containers = TRUE, !.kinds = {"rpc_result", "pong"}],
     [Scope(1, 1, MaxWrites, MaxRecv + 1, 1, FALSE)
          EXCEPT !.seqnos = {3}, !.kinds = {"rpc_result", "bad_server_salt"}]}

\* the state after a turn: s, provided the turn stayed within the scope
Commit(s) ==
    /\ s.transport.next_msg_id <= scope.writes + 1
    /\ s.transport.created <= scope.sessions
    /\ s.transport.next_ping_id <= scope.pings + 1
    /\ s.transport.recv <= scope.recv
    /\ scope' = scope
    /\ mtproto' = s.mtproto
    /\ mtproto_loop_task' = s.mtproto_loop_task
    /\ last_seqno' = s.last_seqno
    /\ stable_seqno' = s.stable_seqno
    /\ seqno_increment' = s.seqno_increment
    /\ msgids_to_ack' = s.msgids_to_ack
    /\ pending_requests' = s.pending_requests
    /\ pending_pongs' = s.pending_pongs
    /\ pending_ping_request' = s.pending_ping_request
    /\ response' = s.response
    /\ callers' = s.callers
    /\ loops' = s.loops
    /\ timers' = s.timers
    /\ transport' = s.transport
    /\ returned' = s.returned
    /\ results' = s.results
    /\ trace' = s.trace

\* the client after __init__, no session started, and its collaborators
InitState ==
    /\ mtproto = 0
    /\ mtproto_loop_task = 0
    /\ last_seqno = 0
    /\ stable_seqno = FALSE
    /\ seqno_increment = 1
    /\ msgids_to_ack = <<>>
    /\ pending_requests = EmptyDict
    /\ pending_pongs = {}
    /\ pending_ping_request = "none"
    /\ response = [r \in Requests |-> "pending"]
    /\ callers = [c \in Callers |-> NoCaller]
    /\ loops = [l \in Loops |-> NoLoop]
    /\ timers = [next_ping |-> 0, expiry |-> {}]
    /\ transport = [salt |-> 0, next_msg_id |-> 1, created |-> 0, next_ping_id |-> 1,
                    recv |-> 0, acked |-> {}]
    /\ returned = 0
    /\ results = [r \in Requests |-> 0]
    /\ trace = NoTrace

Init ==
    /\ scope \in Scopes
    /\ InitState

\* ----------------------------------------------------------- control flow
Ret(s) == [s EXCEPT !.ctl = "ret"]
Raise(s, e) == [s EXCEPT !.ctl = "raise", !.exc = e]
\* code runs only if the code before it returned: an operator that may follow
\* an await or a raise passes the state on untouched when s.ctl is not "ret"
Running(s) == s.ctl = "ret"

\* who runs a piece of code: a caller's rpc_call or a read loop
CallerCtx(c) == [kind |-> "caller", id |-> c]
LoopCtx(l) == [kind |-> "loop", id |-> l]

\* the coroutine of ctx suspends at await point pc (waiting for msg id mid, if any)
Suspend(s, ctx, pc, mid) ==
    IF ~Running(s) THEN s
    ELSE IF ctx.kind = "caller"
    THEN [s EXCEPT !.ctl = "susp", !.callers[ctx.id].pc = pc, !.callers[ctx.id].mid = mid]
    ELSE [s EXCEPT !.ctl = "susp", !.loops[ctx.id].pc = pc, !.loops[ctx.id].mid = mid]

\* ------------------------------------------------------ sequence allocator
get_next_odd_seqno_unaligned(s) ==
    LET v == s.last_seqno + 1
    IN [s EXCEPT !.last_seqno = v,
                 !.trace.alloc = [kind |-> "odd", val |-> v, prev |-> s.returned],
                 !.returned = Max(v, s.returned)]

\* Client._get_next_odd_seqno; trace.alloc records the value returned and the
\* largest value any earlier call returned
get_next_odd_seqno(s) ==
    LET v == ((s.last_seqno + 1) \div 2) * 2 + 1
    IN [s EXCEPT !.last_seqno = v,
                 !.trace.alloc = [kind |-> "odd", val |-> v, prev |-> s.returned],
                 !.returned = Max(v, s.returned)]

\* Client._get_next_even_seqno
get_next_even_seqno(s) ==
    LET v == (s.last_seqno \div 2 + 1) * 2
    IN [s EXCEPT !.last_seqno = v,
                 !.trace.alloc = [kind |-> "even", val |-> v, prev |-> s.returned],
                 !.returned = Max(v, s.returned)]

update_last_seqno_unguarded(s, seqno) == [s EXCEPT !.last_seqno = seqno]

\* Client._update_last_seqno_from_incoming_message
update_last_seqno_from_incoming_message(s, seqno) ==
    [s EXCEPT !.last_seqno = Max(s.last_seqno, seqno)]

\* --------------------------------------------------------------- transport
\* MTProto.write(seqno, **fields): assigns the next msg_id; the frame is of
\* the given kind ("rpc", "ping", "msgs_ack"), and a msgs_ack carries the ids of
\* the ack buffer (transport.acked: the ids some msgs_ack has carried).  Called
\* on a transport only.
transport_write(s, kind, seqno) ==
    [s EXCEPT !.transport.next_msg_id = @ + 1,
              !.transport.acked =
                  IF kind = "msgs_ack"
                  THEN @ \cup {s.msgids_to_ack[i] : i \in DOMAIN s.msgids_to_ack}
                  ELSE @,
              !.trace.write = [kind |-> kind, seqno |-> seqno,
                               stable |-> s.stable_seqno,
                               acks |-> Len(s.msgids_to_ack)]]

\* self._mtproto.write(...): AttributeError when self._mtproto is None
mtproto_write(s, kind, seqno) ==
    IF s.mtproto = 0 THEN Raise(s, "AttributeError") ELSE transport_write(s, kind, seqno)

\* self._mtproto.get_server_salt != 0: the salt the transport holds, a value that
\* is 0 until the server supplies one
held_salt_nonzero(s) == s.transport.salt # 0

\* task.cancel(): a finished task ignores it; otherwise CancelledError is thrown
\* into the task at the await where it is (or next) suspended
cancel_loop_task(s, l) ==
    IF s.loops[l].pc \in {"none", "done"} THEN s ELSE [s EXCEPT !.loops[l].cancel = TRUE]

\* ---------------------------------------------------------- pending registry
\* Client._delete_pending_request(msg_id, remove)
delete_pending_request(s, msg_id, remove) ==
    IF msg_id \in DOMAIN s.pending_requests
    THEN LET r == s.pending_requests[msg_id]
             s1 == IF s.response[r] = "pending"
                   THEN [s EXCEPT !.response[r] = "interrupted"]
                   ELSE s
         IN IF remove THEN [s1 EXCEPT !.pending_requests = Del(@, msg_id)] ELSE s1
    ELSE s

delete_pending_pong_kept(s, ping_id, remove) == s

\* Client._delete_pending_pong(ping_id, remove): cancels the disconnect timer.  A
\* timer is armed exactly while its ping id is in pending_pongs: the handle is put
\* there when armed (line 112), and every removal and every clear cancels it first
delete_pending_pong(s, ping_id, remove) ==
    IF ping_id \in s.pending_pongs
    THEN IF remove THEN [s EXCEPT !.pending_pongs = @ \ {ping_id}] ELSE s
    ELSE s

\* Client._delete_all_pending_pongs
delete_all_pending_pongs(s) ==
    [s EXCEPT !.pending_pongs = {}]

delete_all_pending_requests_unchecked(s) ==
    LET held == {s.pending_requests[m] : m \in DOMAIN s.pending_requests}
        s1 == [s EXCEPT !.response = [r \in Requests |->
                                         IF r \in held /\ s.response[r] = "pending"
                                         THEN "interrupted" ELSE s.response[r]]]
    IN IF \E r \in held : s.response[r] # "pending"
       THEN Raise(s1, "InvalidStateError")
       ELSE s1

\* Client._delete_all_pending_requests
delete_all_pending_requests(s) ==
    [s EXCEPT !.response = [r \in Requests |->
                               IF /\ s.response[r] = "pending"
                                  /\ \E m \in DOMAIN s.pending_requests :
                                         s.pending_requests[m] = r
                               THEN "interrupted" ELSE s.response[r]],
              !.pending_requests = EmptyDict]

\* Client._delete_all_pending_data
delete_all_pending_data(s) ==
    LET s1 == delete_all_pending_requests(delete_all_pending_pongs(s))
    IN [s1 EXCEPT !.pending_ping_request = "none"]

\* ------------------------------------------------------------ ack batcher
flush_msgids_to_ack_unstable(s, ctx, pc) ==
    LET s0 == [s EXCEPT !.fresh = TRUE]
    IN IF s0.msgids_to_ack = <<>>
       THEN Ret(s0)
       ELSE LET s1 == get_next_even_seqno(s0)
                s2 == mtproto_write(s1, "msgs_ack", s1.last_seqno)
            IN Suspend(s2, ctx, pc, 0)

\* Client._flush_msgids_to_ack up to its await (line 234); the coroutine of ctx
\* suspends at pc when a msgs_ack was written
flush_msgids_to_ack(s, ctx, pc) ==
    LET s0 == [s EXCEPT !.fresh = TRUE]
    IN IF s0.msgids_to_ack = <<>> \/ ~s0.stable_seqno
       THEN Ret(s0)
       ELSE LET s1 == get_next_even_seqno(s0)
                s2 == mtproto_write(s1, "msgs_ack", s1.last_seqno)
            IN Suspend(s2, ctx, pc, 0)

\* line 235, after the write-complete signal
flush_completed(s) == [s EXCEPT !.msgids_to_ack = <<>>]

\* ----------------------------------------------------------- ping watchdog
\* Client._create_new_ping_request up to its await (line 117)
create_new_ping_request(s) ==
    LET p == s.transport.next_ping_id
        s1 == get_next_odd_seqno([s EXCEPT !.transport.next_ping_id = @ + 1])
        s2 == [s1 EXCEPT !.pending_pongs = @ \cup {p}]
        s3 == mtproto_write(s2, "ping", s2.last_seqno)
    IN IF Running(s3)
       THEN [s3 EXCEPT !.pending_requests =
                           Put(@, s2.transport.next_msg_id, PingRequest(p))]
       ELSE s3

\* ------------------------------------------------------ session controller
\* Client._start_mtproto_loop up to the await inside _create_new_ping_request
start_mtproto_loop(s, ctx) ==
    LET s1 == delete_all_pending_data(s)
        s2 == IF s1.mtproto # 0 THEN cancel_loop_task(s1, s1.mtproto_loop_task) ELSE s1
        k == s2.transport.created + 1
        s3 == [s2 EXCEPT !.transport.created = k, !.transport.salt = 0,
                         !.mtproto = k, !.mtproto_loop_task = k]
        s4 == IF k \in Loops
              THEN [s3 EXCEPT !.loops[k] = [NoLoop EXCEPT !.pc = "read", !.rt = k]]
              ELSE s3
        s5 == create_new_ping_request(s4)
    IN Suspend(s5, ctx, "start_ping", 0)

\* Client._rpc_call lines 67-77: allocate, write, register, await the write
rpc_call_send(s, ctx, req) ==
    IF ~Running(s) THEN s
    ELSE LET s1 == get_next_odd_seqno(s)
             s2 == mtproto_write(s1, "rpc", s1.last_seqno)
         IN IF Running(s2)
            THEN Suspend([s2 EXCEPT !.pending_requests =
                                        Put(@, s1.transport.next_msg_id, req)],
                         ctx, "write", s1.transport.next_msg_id)
            ELSE s2

\* Client._rpc_call from line 66: the pre-send ack flush, then the send
rpc_call_flush(s, ctx, req) ==
    rpc_call_send(flush_msgids_to_ack(s, ctx, "pre_flush"), ctx, req)

\* Client._rpc_call from its start (line 63)
rpc_call_enter(s, ctx, req) ==
    IF s.mtproto = 0 \/ s.loops[s.mtproto_loop_task].pc = "done"
    THEN start_mtproto_loop(s, ctx)
    ELSE rpc_call_flush(s, ctx, req)

\* Client._rpc_call after the await of line 77 ended with outcome ("ok", "OSError"
\* or "CancelledError", the last two caught at line 78), up to line 81
rpc_call_written(s, msg_id, outcome) ==
    LET s1 == IF outcome = "ok" THEN s ELSE delete_pending_request(s, msg_id, TRUE)
    IN [s1 EXCEPT !.seqno_increment = @ + 1]

\* Client._rpc_call line 84: no-response mode arms the 600 s removal timer
rpc_call_no_response(s, msg_id) ==
    [s EXCEPT !.timers.expiry = @ \cup {msg_id}]

\* ------------------------------------------------------- inbound dispatcher
\* an inbound message: its msg_id, seqno, the constructor of its body, and the
\* body's fields: a is req_msg_id / msg_id / bad_msg_id, p is ping_id
Msg(id, seqno, b) ==
    [id |-> id, seqno |-> seqno, body |-> b.body, a |-> b.a, p |-> b.p,
     salt |-> b.salt, error_code |-> b.error_code]

\* Client._process_rpc_result; set_result on a slot that is done raises
\* InvalidStateError, which trace.invalid records
process_rpc_result(s, m) ==
    LET s1 == [s EXCEPT !.stable_seqno = TRUE]
    IN IF m.a \in DOMAIN s1.pending_requests
       THEN LET r == s1.pending_requests[m.a]
                s2 == [s1 EXCEPT !.pending_requests = Del(@, m.a)]
            IN IF s2.response[r] = "pending"
               THEN [s2 EXCEPT !.response[r] = "result", !.results[r] = @ + 1]
               ELSE Raise([s2 EXCEPT !.trace.invalid = TRUE], "InvalidStateError")
       ELSE s1

\* line 219: the next ping is scheduled; the handle held before is dropped, armed or not
schedule_next_ping(s) ==
    IF ~Running(s) THEN s
    ELSE [s EXCEPT !.timers.next_ping = IF s.pending_ping_request = "armed" THEN @ + 1 ELSE @,
              !.pending_ping_request = "armed"]

\* Client._process_pong; trace.pongs records the ping_id of the pong
process_pong(s, m) ==
    LET s1 == delete_pending_pong([s EXCEPT !.trace.pongs = @ \cup {m.p}], m.p, TRUE)
        s2 == IF m.a \in DOMAIN s1.pending_requests
              THEN LET r == s1.pending_requests[m.a]
                   IN IF s1.response[r] = "pending"
                      THEN [s1 EXCEPT !.response[r] = "empty"]
                      ELSE Raise([s1 EXCEPT !.trace.invalid = TRUE], "InvalidStateError")
              ELSE s1
    IN schedule_next_ping(s2)

\* lines 247-250 and 261-264: the culprit request is detached and re-sent in
\* no-response mode by the read loop l
resend_bad_request(s, l, bad_msg_id) ==
    IF bad_msg_id \in DOMAIN s.pending_requests
    THEN LET r == s.pending_requests[bad_msg_id]
             s1 == [s EXCEPT !.pending_requests = Del(@, bad_msg_id),
                             !.loops[l].req = r]
         IN rpc_call_enter(s1, LoopCtx(l), r)
    ELSE s

process_bad_server_salt_resetting(s, l, m) ==
    LET s1 == [s EXCEPT !.stable_seqno = FALSE]
        s2 == [s1 EXCEPT !.transport.salt = m.salt]
    IN resend_bad_request(s2, l, m.a)

\* Client._process_bad_server_salt
process_bad_server_salt(s, l, m) ==
    LET s1 == IF held_salt_nonzero(s) THEN [s EXCEPT !.stable_seqno = FALSE] ELSE s
        s2 == [s1 EXCEPT !.transport.salt = m.salt]
    IN resend_bad_request(s2, l, m.a)

\* min(2 ** 31 - 1, seqno_increment << 1)
doubled_increment(inc) ==
    IF inc > SeqnoIncrementCap \div 2 THEN SeqnoIncrementCap ELSE 2 * inc

\* Client._process_bad_msg_notification_msg_seqno_too_low
process_bad_msg_notification_msg_seqno_too_low(s, l, m) ==
    LET inc == doubled_increment(s.seqno_increment)
        s1 == [s EXCEPT !.seqno_increment = inc, !.last_seqno = @ + inc]
    IN resend_bad_request(s1, l, m.a)

\* Client._process_telegram_message_body
process_telegram_message_body(s, l, m) ==
    CASE m.body = "rpc_result" -> process_rpc_result(s, m)
      [] m.body = "pong" -> process_pong(s, m)
      [] m.body = "bad_server_salt" -> process_bad_server_salt(s, l, m)
      [] m.body = "bad_msg_notification" /\ m.error_code = 32 /\ ~s.stable_seqno ->
             process_bad_msg_notification_msg_seqno_too_low(s, l, m)
      [] OTHER -> s

\* Client._acknowledge_telegram_message
acknowledge_telegram_message(s, l, m) ==
    IF ~Running(s) THEN s
    ELSE IF m.seqno % 2 = 1
    THEN flush_msgids_to_ack([s EXCEPT !.msgids_to_ack = Append(@, m.id)],
                             LoopCtx(l), "ack_flush")
    ELSE s

\* Client._process_telegram_message for the messages q, in order (the inner
\* messages of a container, or one message); the loop keeps the message it is
\* handling and those still to come across its awaits
RECURSIVE process_telegram_messages(_, _, _)
process_telegram_messages(s, l, q) ==
    IF ~Running(s) \/ q = <<>>
    THEN s
    ELSE LET m == Head(q)
             s1 == update_last_seqno_from_incoming_message(s, m.seqno)
             s2 == [s1 EXCEPT !.loops[l].cur = <<[id |-> m.id, seqno |-> m.seqno]>>,
                              !.loops[l].rest = Tail(q)]
             s3 == process_telegram_message_body(s2, l, m)
             s4 == acknowledge_telegram_message(s3, l, m)
         IN process_telegram_messages(s4, l, Tail(q))

\* Client._flush_msgids_to_ack_if_needed; aged: more than 10 s since the last flush
flush_msgids_to_ack_if_needed(s, l, aged) ==
    IF ~Running(s) THEN s
    ELSE IF Len(s.msgids_to_ack) >= AckFlushSize \/ (aged /\ ~s.fresh)
    THEN flush_msgids_to_ack(s, LoopCtx(l), "need_flush")
    ELSE s

\* ----------------------------------------------------------------- read loop
\* Client._mtproto_loop line 157 and the read of line 159: the loop goes on with
\* the transport the client holds now, and ends when it holds none
loop_continue(s, l) ==
    IF s.mtproto # 0
    THEN [s EXCEPT !.ctl = "susp", !.exc = "none",
                   !.loops[l] = [NoLoop EXCEPT !.pc = "read", !.rt = s.mtproto,
                                               !.cancel = s.loops[l].cancel]]
    ELSE [s EXCEPT !.ctl = "ret", !.exc = "none", !.loops[l] = [NoLoop EXCEPT !.pc = "done"]]

\* lines 166-170 from any point of the processing on: whatever is raised is
\* logged, and the loop goes on when the processing has ended
loop_finish(s, l, aged) ==
    LET s1 == flush_msgids_to_ack_if_needed(s, l, aged)
    IN IF s1.ctl = "susp" THEN s1 ELSE loop_continue(s1, l)

\* the rest of the message in hand after its body was handled, then the messages
\* still to come
loop_after_body(s, l, aged) ==
    LET m == Head(s.loops[l].cur)
        q == s.loops[l].rest
        s1 == acknowledge_telegram_message(s, l, m)
        s2 == process_telegram_messages(s1, l, q)
    IN loop_finish(s2, l, aged)

\* the loop l, suspended in the processing of a message, is resumed: the write it
\* awaits ended with outcome "ok", "OSError" or "CancelledError"
loop_resume(s, l, outcome, aged) ==
    LET pc == s.loops[l].pc
        ctx == LoopCtx(l)
        s0 == [s EXCEPT !.loops[l].cancel = FALSE]
    IN CASE pc = "write" ->
              loop_after_body(
                  rpc_call_no_response(rpc_call_written(s0, s0.loops[l].mid, outcome),
                                       s0.loops[l].mid), l, aged)
         [] pc # "write" /\ outcome # "ok" -> loop_finish(Raise(s0, outcome), l, aged)
         [] pc = "start_ping" /\ outcome = "ok" ->
              loop_finish(rpc_call_flush(s0, ctx, s0.loops[l].req), l, aged)
         [] pc = "pre_flush" /\ outcome = "ok" ->
              loop_finish(rpc_call_send(flush_completed(s0), ctx, s0.loops[l].req), l, aged)
         [] pc = "ack_flush" /\ outcome = "ok" ->
              loop_finish(process_telegram_messages(flush_completed(s0), l, s0.loops[l].rest),
                          l, aged)
         [] pc = "need_flush" /\ outcome = "ok" -> loop_continue(flush_completed(s0), l)

\* the loop l reads the messages q (one message, or the inner messages of a
\* container whose own seqno is cseq) and processes them
loop_read(s, l, cseq, q, aged) ==
    LET s1 == update_last_seqno_from_incoming_message(s, cseq)
        s2 == [s1 EXCEPT !.transport.recv = @ + Len(q)]
    IN loop_finish(process_telegram_messages(s2, l, q), l, aged)

\* --------------------------------------------------------------- rpc_call
\* an exception leaves rpc_call: the caller c gets it
caller_finish(s, c) ==
    IF s.ctl = "raise"
    THEN [s EXCEPT !.ctl = "ret", !.exc = "none",
                   !.callers[c] = [NoCaller EXCEPT !.pc = "done", !.out = s.exc,
                                                   !.torn = s.callers[c].torn]]
    ELSE s

\* the caller c, suspended at an await of a write, is resumed with its outcome
caller_resume(s, c, outcome) ==
    LET pc == s.callers[c].pc
        ctx == CallerCtx(c)
        s0 == [s EXCEPT !.callers[c].cancel = FALSE]
    IN CASE pc = "write" ->
              [rpc_call_written(s0, s0.callers[c].mid, outcome)
                  EXCEPT !.callers[c].pc = "response"]
         [] pc # "write" /\ outcome # "ok" -> caller_finish(Raise(s0, outcome), c)
         [] pc = "start_ping" /\ outcome = "ok" ->
              caller_finish(rpc_call_flush(s0, ctx, c), c)
         [] pc = "pre_flush" /\ outcome = "ok" ->
              caller_finish(rpc_call_send(flush_completed(s0), ctx, c), c)

\* line 86 ends: what rpc_call gives its caller for a resolved response slot
response_outcome(slot) ==
    CASE slot \in {"result", "empty"} -> "result"
      [] slot = "interrupted" -> "InterruptedError"
      [] slot = "cancelled" -> "CancelledError"

\* the suspension points of an rpc_call: the awaits of lines 64, 66, 77 and 86
SuspensionPoints == {"start_ping", "pre_flush", "write", "response"}

\* Client.disconnect; every rpc_call suspended when it runs is marked torn
disconnect(s) ==
    LET s1 == delete_all_pending_data(s)
        s2 == IF s1.mtproto # 0 THEN cancel_loop_task(s1, s1.mtproto_loop_task) ELSE s1
    IN [s2 EXCEPT !.mtproto = 0, !.mtproto_loop_task = 0,
                  !.callers = [c \in Callers |->
                                  IF s.callers[c].pc \in SuspensionPoints
                                  THEN [s2.callers[c] EXCEPT !.torn = TRUE]
                                  ELSE s2.callers[c]]]

\* the outcomes of an awaited write for a task: CancelledError when the task was
\* cancelled meanwhile; otherwise the write completes or the connection fails
WriteOutcomes(cancelled) == IF cancelled THEN {"CancelledError"} ELSE {"ok", "OSError"}

\* the ids a server message can name: each registered one, and 0 for any other
NamedMsgIds == DOMAIN pending_requests \cup {0}
NamedPingIds == pending_pongs \cup {0}

NoBody == [body |-> "other", a |-> 0, p |-> 0, salt |-> 0, error_code |-> 0]
\* the bodies the server can send
Bodies ==
    {NoBody}
    \cup {[NoBody EXCEPT !.body = "rpc_result", !.a = a] : a \in NamedMsgIds}
    \cup {[NoBody EXCEPT !.body = "pong", !.a = a, !.p = q] :
              a \in NamedMsgIds, q \in NamedPingIds}
    \cup {[NoBody EXCEPT !.body = "bad_server_salt", !.a = a, !.salt = v] :
              a \in NamedMsgIds, v \in SaltVals}
    \cup {[NoBody EXCEPT !.body = "bad_msg_notification", !.a = a, !.error_code = 32] :
              a \in NamedMsgIds}

\* ------------------------------------------------------------------ actions
\* a caller invokes rpc_call(message)
Call(c) ==
    /\ callers[c].pc = "idle"
    /\ c <= scope.callers
    /\ Commit(caller_finish(rpc_call_enter(Self, CallerCtx(c), c), c))

\* the write a caller awaits (ping, msgs_ack or its request) ends
CallerWriteDone(c) ==
    /\ callers[c].pc \in {"start_ping", "pre_flush", "write"}
    /\ \E outcome \in WriteOutcomes(callers[c].cancel) :
           Commit(caller_resume(Self, c, outcome))

\* the response slot a caller awaits is resolved: rpc_call returns or raises
CallerResponse(c) ==
    /\ callers[c].pc = "response"
    /\ response[c] # "pending"
    /\ Commit([Self EXCEPT !.callers[c] =
                   [NoCaller EXCEPT !.pc = "done", !.out = response_outcome(response[c]),
                                    !.torn = callers[c].torn]])

\* the 600 s deadline of line 86 fires: wait_for cancels the slot and raises
ResponseTimeout(c) ==
    /\ callers[c].pc = "response"
    /\ response[c] = "pending"
    /\ Commit([Self EXCEPT !.response[c] = "cancelled",
                           !.callers[c] = [NoCaller EXCEPT !.pc = "done",
                                                           !.out = "TimeoutError",
                                                           !.torn = callers[c].torn]])

\* the read loop l reads the message of body b and seqno and processes it; aged
\* tells whether the last ack flush is more than 10 s old when it is done
Dispatch(l, b, seqno, aged) ==
    /\ loops[l].pc = "read" /\ ~loops[l].cancel /\ loops[l].rt = mtproto
    /\ Commit(loop_read(Self, l, 0, <<Msg(transport.recv + 1, seqno, b)>>, aged))

\* transport.read() gives a read loop one message
Deliver(l) ==
    /\ ~scope.containers
    /\ loops[l].pc = "read" /\ ~loops[l].cancel /\ loops[l].rt = mtproto
    /\ \E b \in Bodies, seqno \in scope.seqnos, aged \in BOOLEAN :
           b.body \in scope.kinds /\ Dispatch(l, b, seqno, aged)

\* the read loop l reads a msg_container of seqno cseq (its msg_id is the next
\* one) whose inner messages are q, and processes it
ContainerDispatch(l, cseq, q, aged) ==
    /\ scope.containers
    /\ loops[l].pc = "read" /\ ~loops[l].cancel /\ loops[l].rt = mtproto
    /\ Commit(loop_read([Self EXCEPT !.transport.recv = @ + 1], l, cseq, q, aged))

\* transport.read() gives a read loop a msg_container
DeliverContainer(l) ==
    /\ scope.containers
    /\ transport.recv + ContainerSize + 1 <= scope.recv
    /\ loops[l].pc = "read" /\ ~loops[l].cancel /\ loops[l].rt = mtproto
    /\ \E b1 \in Bodies, b2 \in Bodies, seqno1 \in scope.seqnos, seqno2 \in scope.seqnos,
          cseq \in scope.seqnos, aged \in BOOLEAN :
           /\ b1.body \in scope.kinds /\ b2.body \in scope.kinds
           /\ ContainerDispatch(l, cseq, <<Msg(transport.recv + 2, seqno1, b1),
                                           Msg(transport.recv + 3, seqno2, b2)>>, aged)

\* the user cancels the task that runs rpc_call for caller c while it is
\* suspended: CancelledError is thrown into it when it is resumed
CancelCaller(c) ==
    /\ scope.cancel
    /\ callers[c].pc \in SuspensionPoints
    /\ ~callers[c].cancel
    /\ Commit([Self EXCEPT !.callers[c].cancel = TRUE])

\* a cancelled caller is resumed at line 86: wait_for cancels the response slot
\* and the CancelledError leaves rpc_call
CallerCancelled(c) ==
    /\ callers[c].pc = "response"
    /\ callers[c].cancel
    /\ Commit([Self EXCEPT !.response[c] = IF @ = "pending" THEN "cancelled" ELSE @,
                           !.callers[c] = [NoCaller EXCEPT !.pc = "done",
                                                           !.out = "CancelledError",
                                                           !.torn = callers[c].torn]])

\* transport.read() raises (connection lost, transport stopped, task cancelled):
\* the loop ends (line 162)
ReadFail(l) ==
    /\ loops[l].pc = "read"
    /\ Commit([Self EXCEPT !.loops[l] = [NoLoop EXCEPT !.pc = "done"]])

\* the write a read loop awaits during the processing of a message ends
LoopWriteDone(l) ==
    /\ loops[l].pc \in {"start_ping", "pre_flush", "write", "ack_flush", "need_flush"}
    /\ \E outcome \in WriteOutcomes(loops[l].cancel), aged \in BOOLEAN :
           Commit(loop_resume(Self, l, outcome, aged))

\* the user calls disconnect()
Disconnect ==
    /\ Commit(disconnect(Self))

\* the 10 s disconnect timer of ping p fires (line 112)
PongTimeout(p) ==
    /\ p \in pending_pongs
    /\ Commit(disconnect(Self))

\* a next-ping timer fires (line 219): _create_new_ping_request runs as a task
\* of its own, whose failure nobody sees
NextPing ==
    /\ \/ /\ pending_ping_request = "armed"
          /\ Commit(Ret(create_new_ping_request(
                            [Self EXCEPT !.pending_ping_request = "spent"])))
       \/ /\ timers.next_ping > 0
          /\ Commit(Ret(create_new_ping_request(
                            [Self EXCEPT !.timers.next_ping = @ - 1])))

\* the 600 s removal timer of a re-sent request fires (line 84)
Expire(m) ==
    /\ m \in timers.expiry
    /\ Commit(delete_pending_request([Self EXCEPT !.timers.expiry = @ \ {m}], m, TRUE))

Next ==
    \/ \E c \in Callers : Call(c)
    \/ \E c \in Callers : CallerWriteDone(c)
    \/ \E c \in Callers : CallerResponse(c)
    \/ \E c \in Callers : ResponseTimeout(c)
    \/ \E c \in Callers : CancelCaller(c)
    \/ \E c \in Callers : CallerCancelled(c)
    \/ \E l \in Loops : Deliver(l)
    \/ \E l \in Loops : DeliverContainer(l)
    \/ \E l \in Loops : ReadFail(l)
    \/ \E l \in Loops : LoopWriteDone(l)
    \/ Disconnect
    \/ \E p \in PingIds : PongTimeout(p)
    \/ NextPing
    \/ \E m \in 1..MaxWrites : Expire(m)

Spec == Init /\ [][Next]_vars

\* the restart after a read failure: two callers on a connection whose writes
\* and reads may fail, a server that sends rpc_result and bad_server_salt, no
\* user teardown or cancellation, and no timer that fires
RestartScope ==
    [Scope(NCallers, MaxSessions, MaxWrites + 1, MaxRecv, MaxPings, FALSE)
         EXCEPT !.seqnos = {3}, !.kinds = {"rpc_result", "bad_server_salt"}]

InitRestart ==
    /\ scope = RestartScope
    /\ InitState

NextRestart ==
    \/ \E c \in Callers : Call(c)
    \/ \E c \in Callers : CallerWriteDone(c)
    \/ \E c \in Callers : CallerResponse(c)
    \/ \E l \in Loops : Deliver(l)
    \/ \E l \in Loops : ReadFail(l)
    \/ \E l \in Loops : LoopWriteDone(l)

SpecRestart == InitRestart /\ [][NextRestart]_vars

\* ------------------------------------------------------------------- claims
\* C1: over every interleaving of the allocators, the observation of server
\* seqnos and the error-32 bump, last_seqno never decreases, and a value an
\* allocator returns is greater than every value returned before and has the
\* parity asked for.
AllocationInOrder ==
    /\ trace.alloc.kind # "none" => trace.alloc.val > trace.alloc.prev
    /\ trace.alloc.kind = "odd" => trace.alloc.val % 2 = 1
    /\ trace.alloc.kind = "even" => trace.alloc.val % 2 = 0
C1_SeqnoMonotone == [][last_seqno' >= last_seqno /\ AllocationInOrder']_vars

\* an even seqno allocated after earlier allocations, with a gap that only an
\* observed server seqno or an error-32 bump can open
C1_Witness ==
    /\ trace.alloc.kind = "even"
    /\ trace.alloc.prev > 0
    /\ trace.alloc.val > trace.alloc.prev + 2

\* C2: an rpc_call that returns a result mapping does so because exactly one
\* rpc_result naming the msg_id its request was registered under was dispatched
\* before; no other inbound message makes it return a result.
C2_ResultOnlyByRpcResult ==
    \A c \in Callers :
        (callers[c].pc = "done" /\ callers[c].out = "result") =>
            (results[c] = 1 /\ response[c] = "result")

\* disconnect() runs: called by the user or by the disconnect timer of a ping
DisconnectRuns == Disconnect \/ \E p \in PingIds : PongTimeout(p)

\* C3: when disconnect() runs, every rpc_call awaiting its response has its
\* response slot resolved with an interruption error when disconnect() returns,
\* also while the read loop is re-sending its request.
C3_DisconnectInterruptsAwaiting ==
    [][DisconnectRuns =>
           \A c \in Callers :
               (callers[c].pc = "response" /\ response[c] = "pending") =>
                   response'[c] = "interrupted"]_vars

\* C4: an rpc_call whose session disconnect() tore down at one of its suspension
\* points (the session start, the pre-send ack flush, the write-complete signal
\* or the response) completes with an interruption error and no other failure.
C4_TornCallInterrupted ==
    \A c \in Callers :
        (callers[c].pc = "done" /\ callers[c].torn) =>
            callers[c].out = "InterruptedError"

\* the request of caller r is registered / is held by a read loop that awaits
\* the pre-send ack flush of its re-send / is registered by a re-send
Registered(r) == \E m \in DOMAIN pending_requests : pending_requests[m] = r
BeingResent(r) == \E l \in Loops : loops[l].pc = "pre_flush" /\ loops[l].req = r
Resent(m) ==
    /\ m \in DOMAIN pending_requests
    /\ m \in timers.expiry \/ \E l \in Loops : loops[l].pc = "write" /\ loops[l].mid = m

\* the body b starts a re-send of the request registered under b.a
Resends(b) ==
    /\ \/ b.body = "bad_server_salt"
       \/ b.body = "bad_msg_notification" /\ b.error_code = 32 /\ ~stable_seqno
    /\ b.a \in DOMAIN pending_requests
    /\ pending_requests[b.a] \in Callers

\* C5: when a bad_server_salt (or an error-32 bad_msg_notification while
\* stable_seqno is false) names a pending request, that request is re-sent and
\* registered under a new msg_id with its response slot kept, and the rpc_result
\* that later names the new msg_id resolves the awaiting caller's slot, once.
C5_ResendKeepsSlot ==
    [][/\ \A r \in Callers :
              \/ Registered(r)' \/ BeingResent(r)' \/ response'[r] # "pending"
              \/ ~ /\ response[r] = "pending"
                   /\ \/ BeingResent(r)
                      \/ \E b \in Bodies :
                             /\ Resends(b) /\ pending_requests[b.a] = r
                             /\ \E l \in Loops, seqno \in SeqnoVals, aged \in BOOLEAN :
                                    Dispatch(l, b, seqno, aged)
       /\ \A b \in Bodies :
              (/\ b.body = "rpc_result" /\ Resent(b.a)
               /\ pending_requests[b.a] \in Callers
               /\ callers[pending_requests[b.a]].pc = "response"
               /\ \E l \in Loops, seqno \in SeqnoVals, aged \in BOOLEAN :
                      Dispatch(l, b, seqno, aged))
              => (/\ response'[pending_requests[b.a]] = "result"
                  /\ results'[pending_requests[b.a]] = 1)]_vars

\* C6: every message rpc_call, a recovery re-send or the ping watchdog writes to
\* the transport carries an odd seqno, and every msgs_ack the ack flush writes
\* carries an even seqno.
C6_SeqnoParity ==
    /\ trace.write.kind \in {"rpc", "ping"} => trace.write.seqno % 2 = 1
    /\ trace.write.kind = "msgs_ack" => trace.write.seqno % 2 = 0

\* a re-send written by a read loop after a msgs_ack raised last_seqno to an
\* even value
C6_Witness ==
    /\ trace.write.kind = "rpc"
    /\ \E l \in Loops : loops[l].pc = "write"
    /\ trace.write.seqno >= 5

\* C7: a msgs_ack is written to the transport only in a state where stable_seqno
\* is true and the ack buffer is non-empty, whoever flushes (the read loop,
\* rpc_call or a recovery re-send).
C7_AckOnlyWhenStable ==
    trace.write.kind = "msgs_ack" => (trace.write.stable /\ trace.write.acks > 0)

\* the pre-send flush of a recovery re-send writes a msgs_ack
C7_Witness ==
    /\ trace.write.kind = "msgs_ack"
    /\ \E l \in Loops : loops[l].pc = "pre_flush"

\* a pong with ping_id p is dispatched in this step
PongDispatched(p) == p \in trace'.pongs

\* ping p was sent and its disconnect timer is no longer armed
Disarmed(p) == p < transport.next_ping_id /\ p \notin pending_pongs

\* C8 as claimed: a pong with ping_id p dispatched while the disconnect timer of
\* p is armed cancels it, and a cancelled timer never fires; without such a pong
\* the timer of p stays armed until it fires and disconnect() runs.
C8_PongOrDisconnect ==
    [][\A p \in PingIds :
           /\ p \notin pending_pongs' \/ ~(p \in pending_pongs /\ PongDispatched(p))
           /\ Disarmed(p) => Disarmed(p)'
           /\ (p \in pending_pongs /\ p \notin pending_pongs') =>
                  (PongDispatched(p) \/ PongTimeout(p))]_vars

\* C8 as amended: a pong with ping_id p dispatched while the disconnect timer of
\* p is armed cancels it, and a cancelled timer never fires; without such a pong
\* the timer of p stays armed until it fires and disconnect() runs, or until
\* disconnect() or a session start (_start_mtproto_loop) cancels it.
C8_PongOrTeardown ==
    [][\A p \in PingIds :
           /\ p \notin pending_pongs' \/ ~(p \in pending_pongs /\ PongDispatched(p))
           /\ Disarmed(p) => Disarmed(p)'
           /\ (p \in pending_pongs /\ p \notin pending_pongs') =>
                  \/ PongDispatched(p)
                  \/ DisconnectRuns
                  \/ transport'.created > transport.created]_vars

\* the pong of the first ping was dispatched in a session that is still up
C8_Witness ==
    /\ Disarmed(1)
    /\ mtproto = 1 /\ transport.created = 1
    /\ pending_ping_request = "armed"

\* the registry entry m has a caller that awaits its response slot (or is about
\* to, at the write-complete await before it), or a timer that will remove it:
\* the 600 s timer of a re-send, or the disconnect timer of its ping
AwaitedOrTimed(m) ==
    LET r == pending_requests[m]
    IN \/ r \in Callers /\ callers[r].pc \in {"write", "response"}
       \/ m \in timers.expiry
       \/ \E p \in pending_pongs : r = PingRequest(p)

\* C9: in every reachable state each entry of the pending-request registry has a
\* caller still awaiting its response slot or an armed timer that will remove
\* it, also the entry of a ping after its pong and the entry of an rpc_call
\* whose 600 s response deadline has fired.
C9_EntriesAwaitedOrTimed ==
    \A m \in DOMAIN pending_requests : AwaitedOrTimed(m)

\* C10: the dispatch of an rpc_result whose req_msg_id is not in the pending
\* registry leaves stable_seqno, the registry and every response slot unchanged.
C10_UnmatchedResultIgnored ==
    [][\A b \in Bodies :
           (/\ b.body = "rpc_result" /\ b.a \notin DOMAIN pending_requests
            /\ transport'.recv = transport.recv + 1
            /\ \E l \in Loops, seqno \in SeqnoVals, aged \in BOOLEAN :
                   Dispatch(l, b, seqno, aged))
           => (/\ stable_seqno' = stable_seqno
               /\ pending_requests' = pending_requests
               /\ response' = response)]_vars

\* C11: the dispatch of a pong whose ping_id matches no pending-pong entry is
\* ignored: it cancels no timer, arms no timer (no next ping is scheduled) and
\* resolves no response slot.
C11_UnmatchedPongIgnored ==
    [][\A b \in Bodies :
           (/\ b.body = "pong" /\ b.p \notin pending_pongs
            /\ transport'.recv = transport.recv + 1
            /\ \E l \in Loops, seqno \in SeqnoVals, aged \in BOOLEAN :
                   Dispatch(l, b, seqno, aged))
           => (/\ pending_pongs' = pending_pongs
               /\ pending_ping_request' = pending_ping_request
               /\ timers' = timers
               /\ response' = response)]_vars

\* the write-complete await of caller c (line 77) ends in CancelledError or in
\* OSError in this step
WriteAwaitFails(c) ==
    /\ callers[c].pc = "write"
    /\ callers'[c].pc # "write"
    /\ \E outcome \in WriteOutcomes(callers[c].cancel) \ {"ok"} :
           Commit(caller_resume(Self, c, outcome))

\* C12: when an rpc_call is cancelled, or its write fails, while it awaits the
\* write-complete signal, no entry remains under its msg_id and its response
\* slot, if not resolved before, is resolved with an interruption error.
C12_FailedWriteDeregisters ==
    [][\A c \in Callers :
           WriteAwaitFails(c) =>
               /\ callers[c].mid \notin DOMAIN pending_requests'
               /\ response'[c] # "pending"
               /\ response[c] = "pending" => response'[c] = "interrupted"]_vars

\* C13: in every reachable state where stable_seqno is true the ack buffer holds
\* at most 32 message ids, also right after stable_seqno turned true with ids
\* accumulated while it was false.
C13_AckBufferBounded ==
    stable_seqno => Len(msgids_to_ack) <= AckFlushSize

\* C14: disconnect() is idempotent: when disconnect() has run, a second call
\* right after it changes nothing of the session (transport and task handles,
\* registries, timers, seqno fields, ack buffer) and raises nothing.
C14_DisconnectIdempotent ==
    [][DisconnectRuns => (disconnect(Self) = Self)']_vars

\* disconnect() has torn down a session with an awaiting caller and a reading loop
C14_Witness ==
    /\ mtproto = 0
    /\ \E c \in Callers : callers[c].torn /\ response[c] = "interrupted"
    /\ \E l \in Loops : loops[l].cancel

\* an error-32 bad_msg_notification is dispatched in this step while
\* stable_seqno is false
Error32Dispatched ==
    \E b \in Bodies :
        /\ b.body = "bad_msg_notification" /\ b.error_code = 32 /\ ~stable_seqno
        /\ transport'.recv = transport.recv + 1
        /\ \E l \in Loops, seqno \in SeqnoVals, aged \in BOOLEAN : Dispatch(l, b, seqno, aged)

\* C15: each error-32 bad_msg_notification dispatched while stable_seqno is
\* false doubles seqno_increment, clamped at 2^31 - 1, and advances last_seqno by
\* the new seqno_increment; seqno_increment changes in this recovery only and
\* never exceeds 2^31 - 1.
C15_IncrementDoublesOnly ==
    [][/\ seqno_increment' # seqno_increment => Error32Dispatched
       /\ Error32Dispatched =>
              /\ seqno_increment' = Min(SeqnoIncrementCap, 2 * seqno_increment)
              /\ last_seqno' >= last_seqno + seqno_increment'
       /\ seqno_increment' <= SeqnoIncrementCap]_vars

\* C16: on the dispatch of a bad_server_salt, stable_seqno is reset to false if
\* the salt the transport held before was non-zero and keeps its value if that
\* salt was zero; in both cases the transport's salt becomes new_server_salt.
C16_SaltResetsStable ==
    [][\A b \in Bodies :
           (/\ b.body = "bad_server_salt"
            /\ transport'.recv = transport.recv + 1
            /\ \E l \in Loops, seqno \in SeqnoVals, aged \in BOOLEAN :
                   Dispatch(l, b, seqno, aged))
           => (/\ stable_seqno' = (IF transport.salt # 0 THEN FALSE ELSE stable_seqno)
               /\ transport'.salt = b.salt)]_vars

\* a bad_server_salt was dispatched while the held salt was zero and stable_seqno
\* true: the re-send it started awaits its pre-send ack flush
C16_Witness ==
    /\ transport.salt # 0
    /\ stable_seqno
    /\ \E l \in Loops : loops[l].pc = "pre_flush" /\ loops[l].req \in Callers

\* the ack buffer holds the msg_id i
InBuffer(i) == \E k \in 1..Len(msgids_to_ack) : msgids_to_ack[k] = i

\* no read loop is in the middle of handling a message
NoneInHand == \A l \in Loops : loops[l].cur = <<>>

\* C17: the msg_id of a dispatched message that is not a container is appended
\* to the ack buffer if and only if its seqno is odd, whatever its body and
\* whatever happens while the body is handled, and the msg_id of a msg_container
\* is never appended.  Stated for a message handled within the turn that reads
\* it, for a message (top-level or inner) whose handling was suspended and ends
\* in this step, and for the container read in this step.
C17_AckedIffOdd ==
    [][/\ \A b \in Bodies, seqno \in SeqnoVals, i \in {transport.recv + 1} :
              (/\ transport'.recv = transport.recv + 1
               /\ NoneInHand'
               /\ \E l \in Loops, aged \in BOOLEAN : Dispatch(l, b, seqno, aged))
              => (seqno % 2 = 1 <=> InBuffer(i)')
       /\ \A l \in Loops :
              (loops[l].cur # <<>> /\ loops'[l].cur # loops[l].cur)
              => \A m \in {Head(loops[l].cur)} :
                     m.seqno % 2 = 1 <=> (InBuffer(m.id) \/ InBuffer(m.id)')
       /\ (scope.containers /\ transport'.recv = transport.recv + ContainerSize + 1)
              => \A i \in {transport.recv + 1} : ~InBuffer(i)']_vars

\* a turn in which rpc_call finds the read loop of the session ended by a read
\* failure and starts a new session
RestartRuns ==
    /\ mtproto # 0
    /\ loops[mtproto_loop_task].pc = "done"
    /\ transport'.created = transport.created + 1

\* C18: when rpc_call restarts the session after the read loop ended on a read
\* failure, every caller still awaiting a response of the old session is
\* interrupted (so no later rpc_result can resolve its request), and the
\* registries hold nothing of the old session: only the new session's ping
C18_RestartInterruptsAwaiting ==
    [][RestartRuns =>
           /\ \A c \in Callers :
                  (callers[c].pc = "response" /\ response[c] = "pending")
                  => response'[c] = "interrupted"
           /\ pending_pongs' \subseteq {transport.next_ping_id}
           /\ DOMAIN pending_requests' \subseteq {transport.next_msg_id}]_vars
\* C19: no server message id is lost from the ack buffer: an id that is in the
\* buffer before a turn is still in it after the turn, or some msgs_ack written
\* to the transport (in this turn or before) has carried it
C19_NoAckLost ==
    [][\A i \in {msgids_to_ack[k] : k \in DOMAIN msgids_to_ack} :
           InBuffer(i)' \/ i \in transport'.acked]_vars
\* the read loops that await read() and have no cancellation to receive
Readers == {l \in Loops : loops[l].pc = "read" /\ ~loops[l].cancel}

\* C20: a read loop that was cancelled while it awaited a write of its message
\* processing does not come back to read(), and at most one read loop awaits
\* read() at any time
C20_OneReader ==
    [][/\ \A l \in Loops :
              (loops[l].cancel /\ loops[l].pc # "read") => loops'[l].pc # "read"
       /\ Cardinality(Readers') <= 1]_vars

\* C21: the dispatcher resolves a response slot only while it is unresolved: no
\* turn has a set_result that fails on a slot already resolved, interrupted or
\* cancelled
C21_SlotSingleFire == ~trace.invalid
====
